---- MODULE Spec2Model ----
(***************************************************************************)
(* script/judge.py: the judge orchestrator (main), the per-case runner     *)
(* (run_single_test, run_with_time) and the verdict classifier, as a state *)
(* machine.  Texts are sequences of one-character strings; times are       *)
(* integers (whole seconds); an Optional value is None (<<>>) or Some(v).   *)
(***************************************************************************)
EXTENDS Integers, Sequences, FiniteSets, TLC

\* ---------------------------------------------------------------- bounds
MaxLen == 3        \* longest stdout of the single-case runs
MaxExpected == 2   \* longest expected-output file of the single-case runs
MaxTests == 2      \* most *.in files in the problem directory
MaxCpp == 2        \* most *.cpp entries in the problem directory
MaxSamples == 1    \* most samples of a fetched problem

\* ---------------------------------------------------------------- values
None == <<>>
Some(v) == <<v>>
IsNone(o) == o = <<>>
Val(o) == o[1]

\* characters a program or a file can hold: one token character and the
\* whitespace characters space, LF, CR
Chars == {"a", " ", "\n", "\r"}
Whitespace == {" ", "\n", "\r", "\t"}

RECURSIVE TextsUpTo(_)
TextsUpTo(n) ==
    IF n = 0 THEN {<<>>}
    ELSE LET shorter == TextsUpTo(n - 1)
         IN  shorter \cup {Append(t, c) : t \in {s \in shorter : Len(s) = n - 1}, c \in Chars}

\* ------------------------------------------------- text conversions
\* text-mode reading (subprocess text=True, Path.read_text): universal
\* newlines, "\r\n" and a lone "\r" both become "\n"
RECURSIVE translate_newlines(_)
translate_newlines(raw) ==
    IF raw = <<>> THEN <<>>
    ELSE IF raw[1] = "\r"
         THEN IF Len(raw) >= 2 /\ raw[2] = "\n"
              THEN <<"\n">> \o translate_newlines(SubSeq(raw, 3, Len(raw)))
              ELSE <<"\n">> \o translate_newlines(Tail(raw))
         ELSE <<raw[1]>> \o translate_newlines(Tail(raw))

\* str.strip(): drop the leading and the trailing whitespace characters
RECURSIVE lstrip(_)
lstrip(text) ==
    IF text # <<>> /\ text[1] \in Whitespace THEN lstrip(Tail(text)) ELSE text

RECURSIVE rstrip(_)
rstrip(text) ==
    IF text # <<>> /\ text[Len(text)] \in Whitespace
    THEN rstrip(SubSeq(text, 1, Len(text) - 1))
    ELSE text

strip(text) == rstrip(lstrip(text))

\* the first token of a text that starts with a non-whitespace character
RECURSIVE first_token(_)
first_token(text) ==
    IF text = <<>> \/ text[1] \in Whitespace THEN <<>>
    ELSE <<text[1]>> \o first_token(Tail(text))

\* str.split() with no separator: split on whitespace runs, no empty tokens
RECURSIVE split(_)
split(text) ==
    LET rest == lstrip(text)
    IN  IF rest = <<>> THEN <<>>
        ELSE LET tok == first_token(rest)
             IN  <<tok>> \o split(SubSeq(rest, Len(tok) + 1, Len(rest)))

\* a byte-exact comparison: the text itself as its only token
normalize_text_exact(text) == <<text>>

normalize_text(text) == split(strip(text))

\* read_text_safe: "" when the path is no file, else its contents as text
read_text_safe(file) ==
    IF ~file.is_file THEN <<>> ELSE translate_newlines(file.raw)

\* ------------------------------------------------- instrumentation
\* parse_time_output: a side-channel file is [is_file, fields]; a field is
\* Some(number) when float() accepts it and None when it does not
\* a parse that keeps the first field of a file with a single field
parse_time_output_keeps_first(file) ==
    IF ~file.is_file THEN <<None, None>>
    ELSE IF file.fields = <<>> THEN <<None, None>>
    ELSE IF Len(file.fields) < 2 THEN <<file.fields[1], None>>
    ELSE IF IsNone(file.fields[1]) \/ IsNone(file.fields[2]) THEN <<None, None>>
    ELSE <<file.fields[1], file.fields[2]>>

parse_time_output(file) ==
    IF ~file.is_file THEN <<None, None>>
    ELSE IF file.fields = <<>> THEN <<None, None>>
    ELSE IF Len(file.fields) < 2 THEN <<None, None>>
    ELSE IF IsNone(file.fields[1]) \/ IsNone(file.fields[2]) THEN <<None, None>>
    ELSE <<file.fields[1], file.fields[2]>>

\* _ensure_str of the TimeoutExpired handler: None, str or bytes to text
\* (bytes are decoded as they are, without newline translation)
ensure_str(value) ==
    IF value.type = "none" THEN <<>> ELSE value.data

\* ------------------------------------------------- verdict classifier
\* the output compared before the exit code is looked at
classify_compare_first(exit_code, expected_available, normalized_actual, normalized_expected) ==
    IF expected_available /\ normalized_actual = normalized_expected
    THEN [status |-> "AC", message |-> [text |-> "Accepted", arg |-> None]]
    ELSE IF exit_code # 0
    THEN [status |-> "RE", message |-> [text |-> "Runtime error (exit code", arg |-> Some(exit_code)]]
    ELSE IF ~expected_available
    THEN [status |-> "NO_EXPECTED", message |-> [text |-> "Expected output missing", arg |-> None]]
    ELSE [status |-> "WA", message |-> [text |-> "Wrong answer", arg |-> None]]

\* the missing expected file looked at before the exit code
classify_missing_first(exit_code, expected_available, normalized_actual, normalized_expected) ==
    IF ~expected_available
    THEN [status |-> "NO_EXPECTED", message |-> [text |-> "Expected output missing", arg |-> None]]
    ELSE IF exit_code # 0
    THEN [status |-> "RE", message |-> [text |-> "Runtime error (exit code", arg |-> Some(exit_code)]]
    ELSE IF normalized_actual = normalized_expected
    THEN [status |-> "AC", message |-> [text |-> "Accepted", arg |-> None]]
    ELSE [status |-> "WA", message |-> [text |-> "Wrong answer", arg |-> None]]

classify(exit_code, expected_available, normalized_actual, normalized_expected) ==
    IF exit_code # 0
    THEN [status |-> "RE", message |-> [text |-> "Runtime error (exit code", arg |-> Some(exit_code)]]
    ELSE IF ~expected_available
    THEN [status |-> "NO_EXPECTED", message |-> [text |-> "Expected output missing", arg |-> None]]
    ELSE IF normalized_actual = normalized_expected
    THEN [status |-> "AC", message |-> [text |-> "Accepted", arg |-> None]]
    ELSE [status |-> "WA", message |-> [text |-> "Wrong answer", arg |-> None]]

\* a handler that drops the partial output carried by the exception
timeout_result_no_output(name, timeout, exc) ==
    [name |-> name, status |-> "TLE", time_seconds |-> timeout, memory_kb |-> None,
     stdout |-> <<>>, stderr |-> <<>>,
     message |-> [text |-> "Timeout after", arg |-> timeout]]

\* the TestResult of the TimeoutExpired handler
timeout_result(name, timeout, exc) ==
    [name |-> name, status |-> "TLE", time_seconds |-> timeout, memory_kb |-> None,
     stdout |-> ensure_str(exc.stdout), stderr |-> ensure_str(exc.stderr),
     message |-> [text |-> "Timeout after", arg |-> timeout]]

\* the substitution applied to memory as it is to time: a reported memory
\* that is zero or negative replaced by the rusage value
measure_symmetric(proc, harness) ==
    LET wall == harness.end_time - harness.start_time
        raw == IF ~IsNone(proc.time_log_path)
               THEN parse_time_output(Val(proc.time_log_path))
               ELSE IF harness.resource
                    THEN LET delta == harness.after_maxrss - harness.before_maxrss
                         IN  <<Some(wall),
                               Some(IF delta > 0 THEN delta ELSE harness.after_maxrss)>>
                    ELSE <<Some(wall), None>>
        t == IF IsNone(raw[1]) \/ Val(raw[1]) <= 0 THEN Some(wall) ELSE raw[1]
        m == IF ~IsNone(raw[2]) /\ Val(raw[2]) <= 0 THEN Some(harness.after_maxrss) ELSE raw[2]
    IN  [time_seconds |-> t, memory_kb |-> m]

\* time_seconds and memory_kb of a completed run: the side-channel file when
\* run_with_time made one, else the wall clock and the rusage delta
measure(proc, harness) ==
    LET wall == harness.end_time - harness.start_time
        raw == IF ~IsNone(proc.time_log_path)
               THEN parse_time_output(Val(proc.time_log_path))
               ELSE IF harness.resource
                    THEN LET delta == harness.after_maxrss - harness.before_maxrss
                         IN  <<Some(wall),
                               Some(IF delta > 0 THEN delta ELSE harness.after_maxrss)>>
                    ELSE <<Some(wall), None>>
        t == IF IsNone(raw[1]) \/ Val(raw[1]) <= 0 THEN Some(wall) ELSE raw[1]
    IN  [time_seconds |-> t, memory_kb |-> raw[2]]

\* run_single_test after run_with_time returned the CompletedProcess proc
completed_result(name, proc, expected_file, harness) ==
    LET program_stdout == proc.stdout
        m == measure(proc, harness)
        expected_text == read_text_safe(expected_file)
        expected_available == expected_file.is_file
        normalized_expected == IF expected_available THEN normalize_text(expected_text) ELSE <<>>
        normalized_actual == normalize_text(program_stdout)
        v == classify(proc.returncode, expected_available, normalized_actual, normalized_expected)
    IN  [name |-> name, status |-> v.status, time_seconds |-> m.time_seconds,
         memory_kb |-> m.memory_kb, stdout |-> program_stdout, stderr |-> proc.stderr,
         message |-> v.message]

\* ------------------------------------------------- orchestrator helpers
\* find_source: the preferred name when it is a file, else the only *.cpp
\* entry of the directory; FileNotFoundError with none or several
\* the first *.cpp entry taken when there are several
find_source_first_of_many(dir) ==
    IF dir.preferred_is_file THEN [found |-> TRUE, source |-> "preferred"]
    ELSE IF dir.cpp_files = 0 THEN [found |-> FALSE, source |-> "none"]
    ELSE [found |-> TRUE, source |-> "only_cpp"]

find_source(dir) ==
    IF dir.preferred_is_file THEN [found |-> TRUE, source |-> "preferred"]
    ELSE IF dir.cpp_files = 0 THEN [found |-> FALSE, source |-> "none"]
    ELSE IF dir.cpp_files > 1 THEN [found |-> FALSE, source |-> "ambiguous"]
    ELSE [found |-> TRUE, source |-> "only_cpp"]

\* sorted(): the names of a set in ascending order
RECURSIVE sorted(_)
sorted(names) ==
    IF names = {} THEN <<>>
    ELSE LET least == CHOOSE n \in names : \A m \in names : n <= m
         IN  <<least>> \o sorted(names \ {least})

\* list_tests: one (input, expected) pair per *.in file, sorted by input name
list_tests(dir) == sorted(dir.in_files)

\* metadata_timeout of main: time_limit_ms / 1000 when the record has a number
metadata_timeout_of(info) ==
    IF IsNone(info) THEN None
    ELSE IF IsNone(Val(info).time_limit_ms) THEN None
    ELSE Some(Val(Val(info).time_limit_ms) \div 1000)

\* the metadata limit taken whenever there is one
effective_timeout_prefers_metadata(timeout_arg, metadata_timeout) ==
    IF ~IsNone(metadata_timeout) THEN metadata_timeout ELSE timeout_arg

effective_timeout_of(timeout_arg, metadata_timeout) ==
    IF ~IsNone(timeout_arg) THEN timeout_arg ELSE metadata_timeout

\* the per-case report line of format_result: the case name and the verdict
\* (the times, limits and message of the line are fields of the TestResult)
format_result(r) == [name |-> r.name, status |-> r.status]

\* ---------------------------------------------------------------- state
VARIABLES
    pc,               \* position of main: parse_args, find_source, list_tests,
                      \* compile, loop, wait (inside subprocess.run), exited
    args,             \* the parsed command line: [mode, timeout]
    env,              \* what the run finds on disk: [dir_exists, preferred_is_file,
                      \* cpp_files, in_files, info, time_binary]
    effective_timeout,\* main's effective_timeout
    tests,            \* main's tests (the input names, in list_tests order)
    warned,           \* the "No .in files found" line was printed
    enumerated,       \* list_tests was called
    compiler_runs,    \* number of compiler invocations
    compiler_exit,    \* None, or Some(exit code of the compiler)
    compile_result,   \* None, or Some(CompileResult) (success, binary)
    build_dir,        \* the transient build directory exists
    idx,              \* number of loop iterations finished
    spawned,          \* the input names a process was started for, in order
    running,          \* the live processes: [case, role]
    temp_files,       \* the side-channel files on disk (by case name)
    obs,              \* what the current case's process did: None or Some(record)
    result,           \* the latest TestResult: None or Some(record)
    report,           \* the per-case report lines printed so far
    overall_success,  \* main's overall_success
    exit_status,      \* None while running, else Some(process exit status)
    ended_by,         \* how main ended: "", "return", "SystemExit", "exception"
    metadata_file,    \* fetch_luogu_problem: luogu_problems.json, None when absent
    catalog,          \* fetch_luogu_problem: luogu_catalog.html
    files,            \* fetch_luogu_problem: the problem directories under base_dir
                      \* that exist, each with its main.cpp, T.md and samples
    call,             \* fetch_luogu_problem: the arguments of the last scaffold call
    fetched,          \* fetch_luogu_problem: the last scaffold call went to the network
    ret               \* fetch_luogu_problem: what the last scaffold call returned

\* the state of judge.py's main
judge_vars == <<pc, args, env, effective_timeout, tests, warned, enumerated, compiler_runs,
          compiler_exit,
          compile_result, build_dir, idx, spawned, running, temp_files, obs, result,
          report, overall_success, exit_status, ended_by>>

\* the state of fetch_luogu_problem.py's scaffold
scaffold_vars == <<metadata_file, catalog, files, call, fetched, ret>>

vars == <<judge_vars, scaffold_vars>>

\* ------------------------------------------------------- input domains
Modes == {"pid", "dir", "none", "invalid"}
TimeoutArgs == {None, Some(0), Some(-1)}
TimeLimitsMs == {1000}
Infos == {None, Some([time_limit_ms |-> None])}
             \cup {Some([time_limit_ms |-> Some(ms)]) : ms \in TimeLimitsMs}
ExitCodes == {0, 1, -11}

NoDir == [dir_exists |-> FALSE, preferred_is_file |-> FALSE, cpp_files |-> 0, in_files |-> {}]
Dirs == {NoDir} \cup
        [dir_exists : {TRUE}, preferred_is_file : BOOLEAN, cpp_files : 0..MaxCpp,
         in_files : {1..n : n \in 0..MaxTests}]

\* an expected-output file: absent, or present with raw contents
AbsentFile == [is_file |-> FALSE, raw |-> <<>>]
FilesOf(texts) == {AbsentFile} \cup {[is_file |-> TRUE, raw |-> t] : t \in texts}

\* side-channel files as the timing tool can leave them
TimeLogs(values) ==
    {[is_file |-> FALSE, fields |-> <<>>], [is_file |-> TRUE, fields |-> <<>>]}
    \cup {[is_file |-> TRUE, fields |-> <<f>>] : f \in {None} \cup {Some(v) : v \in values}}
    \cup {[is_file |-> TRUE, fields |-> <<f, g>>] :
              f \in {None} \cup {Some(v) : v \in values},
              g \in {None} \cup {Some(v) : v \in values}}

Harnesses(walls, rss) ==
    {[start_time |-> 0, end_time |-> w, resource |-> res,
      before_maxrss |-> b, after_maxrss |-> a] :
         w \in walls, res \in BOOLEAN, b \in rss, a \in rss}

\* partial output carried by TimeoutExpired: None, str or bytes
Partials(texts) ==
    {[type |-> "none", data |-> <<>>]}
    \cup {[type |-> ty, data |-> t] : ty \in {"str", "bytes"}, t \in texts}

\* domains of the whole-run specification
RunTexts == {<<>>, <<"a">>}
RunLogs == {[is_file |-> TRUE, fields |-> <<Some(1), Some(5)>>],
            [is_file |-> TRUE, fields |-> <<>>]}
RunHarnesses == {h \in Harnesses({1}, {4}) : h.resource}
RunCodes == {0, 1}

\* domains of the single-case specification
CaseTexts == TextsUpTo(MaxLen)
CaseExpected == TextsUpTo(MaxExpected)
CaseLogs == TimeLogs({-1, 0, 1})
CaseHarnesses == Harnesses({2}, {0, 3})
CaseCodes == ExitCodes

\* ---------------------------------------------------------------- Init
\* fetch_luogu_problem.py is not run: nothing stored, nothing scaffolded
NoScaffold ==
    /\ metadata_file = None
    /\ catalog = "absent"
    /\ files = <<>>
    /\ call = None
    /\ fetched = FALSE
    /\ ret = None

Init ==
    /\ pc = "parse_args"
    /\ args \in [mode : Modes, timeout : TimeoutArgs]
    /\ \E d \in Dirs, i \in Infos, tb \in BOOLEAN :
          env = [dir_exists |-> d.dir_exists, preferred_is_file |-> d.preferred_is_file,
                 cpp_files |-> d.cpp_files, in_files |-> d.in_files,
                 info |-> i, time_binary |-> tb]
    /\ effective_timeout = None
    /\ tests = <<>>
    /\ warned = FALSE
    /\ enumerated = FALSE
    /\ compiler_runs = 0
    /\ compiler_exit = None
    /\ compile_result = None
    /\ build_dir = FALSE
    /\ idx = 0
    /\ spawned = <<>>
    /\ running = {}
    /\ temp_files = {}
    /\ obs = None
    /\ result = None
    /\ report = <<>>
    /\ overall_success = TRUE
    /\ exit_status = None
    /\ ended_by = ""
    /\ NoScaffold

\* a build directory that is removed only when main returns
build_dir_kept_on_exception(how) == how # "return"

\* the build directory after the "with TemporaryDirectory" block is left by
\* a return or by an exception: removed (with the binary in it) either way
build_dir_after_exit(how) == FALSE

\* main ends: a return, argparse's SystemExit, or an uncaught exception
\* (the interpreter then exits with status 1)
Ends(how, status) ==
    /\ pc' = "exited"
    /\ ended_by' = how
    /\ exit_status' = Some(status)

\* ---------------------------------------------------------------- main
\* parse_args and the resolution of the problem directory
ParseArgs ==
    /\ UNCHANGED scaffold_vars
    /\ pc = "parse_args"
    /\ IF args.mode \in {"none", "invalid"}
       THEN Ends("SystemExit", 2)
       ELSE IF ~env.dir_exists
       THEN Ends("return", 1)
       ELSE pc' = "find_source" /\ UNCHANGED <<ended_by, exit_status>>
    /\ UNCHANGED <<args, env, effective_timeout, tests, warned, enumerated, compiler_runs,
                   compiler_exit, compile_result, build_dir, idx, spawned, running, temp_files, obs,
                   result, report, overall_success>>

\* find_source and the limits of the metadata record
FindSource ==
    /\ UNCHANGED scaffold_vars
    /\ pc = "find_source"
    /\ IF ~find_source(env).found
       THEN Ends("return", 1) /\ UNCHANGED effective_timeout
       ELSE /\ pc' = "list_tests"
            /\ effective_timeout' =
                   effective_timeout_of(args.timeout, metadata_timeout_of(env.info))
            /\ UNCHANGED <<ended_by, exit_status>>
    /\ UNCHANGED <<args, env, tests, warned, enumerated, compiler_runs,
                   compiler_exit, compile_result, build_dir, idx, spawned, running, temp_files, obs,
                   result, report, overall_success>>

\* a main that reaches the compile without having enumerated the tests
ListTests_deferred ==
    /\ UNCHANGED scaffold_vars
    /\ pc = "list_tests"
    /\ pc' = "compile"
    /\ UNCHANGED <<args, env, effective_timeout, tests, warned, enumerated, compiler_runs,
                   compiler_exit, compile_result, build_dir, idx, spawned, running, temp_files, obs,
                   result, report, overall_success, exit_status, ended_by>>

\* list_tests and the zero-tests line
ListTests ==
    /\ UNCHANGED scaffold_vars
    /\ pc = "list_tests"
    /\ tests' = list_tests(env)
    /\ warned' = (list_tests(env) = <<>>)
    /\ enumerated' = TRUE
    /\ pc' = "compile"
    /\ UNCHANGED <<args, env, effective_timeout, compiler_runs,
                   compiler_exit, compile_result, build_dir, idx, spawned, running, temp_files, obs,
                   result, report, overall_success, exit_status, ended_by>>

\* a compile step that reports success whatever the compiler's exit code
compile_source_ignores_exit(returncode) ==
    [success |-> TRUE, binary |-> Some("solution")]

\* compile_source: the CompileResult of a compiler that exited with returncode
compile_source(returncode) ==
    [success |-> returncode = 0,
     binary |-> IF returncode = 0 THEN Some("solution") ELSE None]

\* the build directory is made, the compiler runs, and main returns 1 (the
\* directory removed) unless the compile succeeded
Compile ==
    /\ UNCHANGED scaffold_vars
    /\ pc = "compile"
    /\ compiler_runs' = compiler_runs + 1
    /\ \/ \E returncode \in {0, 1} :
             LET cr == compile_source(returncode)
             IN  /\ compile_result' = Some(cr)
                 /\ compiler_exit' = Some(returncode)
                 /\ IF ~cr.success \/ IsNone(cr.binary)
                    THEN Ends("return", 1) /\ build_dir' = build_dir_after_exit("return")
                    ELSE /\ pc' = "loop"
                         /\ build_dir' = TRUE
                         /\ UNCHANGED <<ended_by, exit_status>>
       \/ \* the compiler cannot be started: subprocess.run raises
          /\ Ends("exception", 1)
          /\ build_dir' = build_dir_after_exit("exception")
          /\ UNCHANGED <<compile_result, compiler_exit>>
    /\ UNCHANGED <<args, env, effective_timeout, tests, warned, enumerated,
                   idx, spawned, running, temp_files, obs,
                   result, report, overall_success>>

\* ---------------------------------------------------------------- a case
CurrentCase == tests[idx + 1]

\* the processes subprocess.run starts for a case: the timing wrapper when
\* TIME_BINARY is a file, and the solution binary (the wrapper's child)
ProcessesOf(name) ==
    IF env.time_binary
    THEN {[case |-> name, role |-> "time"], [case |-> name, role |-> "solution"]}
    ELSE {[case |-> name, role |-> "solution"]}

\* a loop body whose overall_success is the last case's verdict alone
Reported_last_only(r) ==
    /\ result' = Some(r)
    /\ report' = Append(report, format_result(r))
    /\ overall_success' = (r.status = "AC")
    /\ idx' = idx + 1
    /\ pc' = "loop"

\* the loop body after run_single_test returned r: the report line is printed
\* and overall_success updated
Reported(r) ==
    /\ result' = Some(r)
    /\ report' = Append(report, format_result(r))
    /\ overall_success' = (overall_success /\ r.status = "AC")
    /\ idx' = idx + 1
    /\ pc' = "loop"

\* run_single_test up to the start of the process: the executable check, the
\* side-channel file of run_with_time, the open of the input, the spawn
StartTest ==
    /\ UNCHANGED scaffold_vars
    /\ pc = "loop"
    /\ idx < Len(tests)
    /\ LET executable_is_file == build_dir /\ ~IsNone(Val(compile_result).binary)
       IN  IF ~executable_is_file
           THEN /\ Ends("exception", 1)
                /\ build_dir' = build_dir_after_exit("exception")
                /\ UNCHANGED <<temp_files, running, spawned>>
           ELSE /\ temp_files' = IF env.time_binary
                                 THEN temp_files \cup {CurrentCase} ELSE temp_files
                /\ \/ /\ running' = running \cup ProcessesOf(CurrentCase)
                      /\ spawned' = Append(spawned, CurrentCase)
                      /\ pc' = "wait"
                      /\ UNCHANGED <<build_dir, ended_by, exit_status>>
                   \/ \* the input cannot be opened or the process not started
                      /\ Ends("exception", 1)
                      /\ build_dir' = build_dir_after_exit("exception")
                      /\ UNCHANGED <<running, spawned>>
    /\ UNCHANGED <<args, env, effective_timeout, tests, warned, enumerated, compiler_runs,
                   compiler_exit, compile_result, idx, obs, result, report, overall_success>>

\* the process exits before the timeout and its output decodes: the rest of
\* run_single_test, then the report line
Completes(codes, outs, errs, expecteds, logs, harnesses) ==
    /\ UNCHANGED scaffold_vars
    /\ pc = "wait"
    /\ \E rc \in codes, out \in outs, err \in errs, expected_file \in expecteds,
          log \in logs, harness \in harnesses :
          LET time_log_path == IF CurrentCase \in temp_files THEN Some(log) ELSE None
              proc == [returncode |-> rc, stdout |-> translate_newlines(out),
                       stderr |-> translate_newlines(err), time_log_path |-> time_log_path]
              r == completed_result(CurrentCase, proc, expected_file, harness)
          IN  /\ obs' = Some([kind |-> "completed", returncode |-> rc, stdout_raw |-> out,
                              stderr_raw |-> err, expected_file |-> expected_file,
                              time_log_path |-> time_log_path, harness |-> harness,
                              timeout |-> effective_timeout])
              /\ Reported(r)
    /\ running' = {p \in running : p.case # CurrentCase}
    /\ temp_files' = temp_files \ {CurrentCase}
    /\ UNCHANGED <<args, env, effective_timeout, tests, warned, enumerated, compiler_runs,
                   compiler_exit, compile_result, build_dir, spawned, exit_status, ended_by>>

\* the process exits before the timeout and its output is no valid text:
\* subprocess.run (text=True, strict errors) raises UnicodeDecodeError
DecodeFails ==
    /\ UNCHANGED scaffold_vars
    /\ pc = "wait"
    /\ \E rc \in RunCodes :
          obs' = Some([kind |-> "undecodable", returncode |-> rc,
                       timeout |-> effective_timeout])
    /\ running' = {p \in running : p.case # CurrentCase}
    /\ Ends("exception", 1)
    /\ build_dir' = build_dir_after_exit("exception")
    /\ UNCHANGED <<args, env, effective_timeout, tests, warned, enumerated, compiler_runs,
                   compiler_exit, compile_result, idx, spawned, temp_files, result, report,
                   overall_success>>

\* the timeout expires: subprocess.run kills and reaps its child (the wrapper
\* when there is one, whose child the solution may then live on) and raises
\* TimeoutExpired; run_single_test returns the TLE result
TimesOut(partials) ==
    /\ UNCHANGED scaffold_vars
    /\ pc = "wait"
    /\ ~IsNone(effective_timeout)
    /\ \E out \in partials, err \in {p \in partials : p.data = <<>>} :
          LET exc == [stdout |-> out, stderr |-> err]
              r == timeout_result(CurrentCase, effective_timeout, exc)
          IN  /\ obs' = Some([kind |-> "timeout", exc |-> exc, timeout |-> effective_timeout])
              /\ Reported(r)
    /\ \E survivors \in SUBSET {p \in running : p.case = CurrentCase /\ p.role = "solution"
                                                /\ env.time_binary} :
          running' = {p \in running : p.case # CurrentCase} \cup survivors
    /\ UNCHANGED <<args, env, effective_timeout, tests, warned, enumerated, compiler_runs,
                   compiler_exit, compile_result, build_dir, spawned, temp_files, exit_status, ended_by>>

\* a solution process left behind by a timeout ends by itself
OrphanExits ==
    /\ UNCHANGED scaffold_vars
    /\ \E p \in running :
          /\ pc = "wait" => p.case # CurrentCase
          /\ running' = running \ {p}
    /\ UNCHANGED <<pc, args, env, effective_timeout, tests, warned, enumerated,
                   compiler_runs, compiler_exit, compile_result, build_dir, idx, spawned, temp_files,
                   obs, result, report, overall_success, exit_status, ended_by>>

\* the loop is over: main returns 0 or 2 and the build directory is removed
Return ==
    /\ UNCHANGED scaffold_vars
    /\ pc = "loop"
    /\ idx = Len(tests)
    /\ Ends("return", IF overall_success THEN 0 ELSE 2)
    /\ build_dir' = build_dir_after_exit("return")
    /\ UNCHANGED <<args, env, effective_timeout, tests, warned, enumerated, compiler_runs,
                   compiler_exit, compile_result, idx, spawned, running, temp_files, obs, result, report,
                   overall_success>>

FinishTest == Completes(RunCodes, RunTexts, {<<>>}, FilesOf(RunTexts), RunLogs, RunHarnesses)

TimeoutTest == TimesOut(Partials(RunTexts))

Next ==
    \/ ParseArgs
    \/ FindSource
    \/ ListTests
    \/ Compile
    \/ StartTest
    \/ FinishTest
    \/ DecodeFails
    \/ TimeoutTest
    \/ OrphanExits
    \/ Return

Spec == Init /\ [][Next]_vars

\* the steps main takes by itself, and the expiry of a timeout that was
\* given to subprocess.run, do happen; that the program under test exits or
\* an orphan ends is up to the program
Fairness ==
    /\ WF_vars(ParseArgs)
    /\ WF_vars(FindSource)
    /\ WF_vars(ListTests)
    /\ WF_vars(Compile)
    /\ WF_vars(StartTest)
    /\ WF_vars(TimeoutTest)
    /\ WF_vars(Return)

\* runs on a directory path whose source is the requested file
InitLive ==
    /\ Init
    /\ args.mode = "dir"
    /\ env.dir_exists
    /\ env.preferred_is_file
    /\ env.cpp_files = 0

SpecLive == InitLive /\ [][Next]_vars /\ Fairness

\* ------------------------------------------------- one case in detail
\* main at the top of the loop, compiled, with one test case to run
InitCase ==
    /\ pc = "loop"
    /\ args = [mode |-> "dir", timeout |-> None]
    /\ \E i \in {None, Some([time_limit_ms |-> Some(1000)])}, tb \in BOOLEAN :
          /\ env = [dir_exists |-> TRUE, preferred_is_file |-> TRUE, cpp_files |-> 1,
                    in_files |-> {1}, info |-> i, time_binary |-> tb]
          /\ effective_timeout = effective_timeout_of(None, metadata_timeout_of(i))
    /\ tests = <<1>>
    /\ warned = FALSE
    /\ enumerated = TRUE
    /\ compiler_runs = 1
    /\ compiler_exit = Some(0)
    /\ compile_result = Some(compile_source(0))
    /\ build_dir = TRUE
    /\ idx = 0
    /\ spawned = <<>>
    /\ running = {}
    /\ temp_files = {}
    /\ obs = None
    /\ result = None
    /\ report = <<>>
    /\ overall_success = TRUE
    /\ exit_status = None
    /\ ended_by = ""
    /\ NoScaffold

\* any output against any expected file, the instrumentation fixed
CaseFinish ==
    Completes(CaseCodes, CaseTexts, {<<>>}, FilesOf(CaseExpected),
              {[is_file |-> TRUE, fields |-> <<Some(1), Some(5)>>]},
              {h \in Harnesses({2}, {3}) : h.resource})

\* any instrumentation outcome, the texts fixed
CaseFinishTimed ==
    Completes(CaseCodes, {<<"a">>}, {<<>>, <<"a">>}, FilesOf({<<"a">>}),
              CaseLogs, CaseHarnesses)

CaseTimeout == TimesOut(Partials(CaseTexts))

NextCase ==
    \/ StartTest
    \/ CaseFinish
    \/ CaseFinishTimed
    \/ DecodeFails
    \/ CaseTimeout
    \/ OrphanExits
    \/ Return

SpecCase == InitCase /\ [][NextCase]_vars

\* ------------------------------------------------- fetch_luogu_problem
\* problem ids, as typed and as the site names them; also the keys of the
\* store and the names of the problem directories
Pids == {"P1", "p1"}

\* a record of the store as far as scaffold reads it: "directory" may be
\* missing; fetched_at tells a record stored earlier from one built now
StoredRecords == [pid : Pids, directory : {None} \cup {Some(d) : d \in Pids}, fetched_at : {"before"}]

\* the contents luogu_problems.json can have: a dict from keys to records
Stores == UNION {[K -> StoredRecords] : K \in SUBSET Pids}

\* a problem directory left by earlier work: the user's main.cpp, an old T.md
WorkedDir == [main_cpp |-> "solution", t_md |-> "before", samples |-> {}]

\* what fetch_problem_payload can give: an exception, or the problem with
\* the pid the site reports (possibly empty) and its samples
Remotes ==
    {[ok |-> FALSE, pid |-> "", samples |-> 0]}
        \cup [ok : {TRUE}, pid : Pids \cup {""}, samples : 0 .. MaxSamples]

\* load_metadata: the dict of the file, an empty dict when there is no file
load_metadata(file) == IF IsNone(file) THEN <<>> ELSE Val(file)

\* a lookup that only tries the key
locate_existing_record_by_key_only(metadata, pid) ==
    IF pid \in DOMAIN metadata THEN Some(metadata[pid]) ELSE None

\* locate_existing_record: the record under the key pid, else an entry whose
\* "pid" field is pid, else None
locate_existing_record(metadata, pid) ==
    IF pid \in DOMAIN metadata THEN Some(metadata[pid])
    ELSE IF \E k \in DOMAIN metadata : metadata[k].pid = pid
         THEN Some(metadata[CHOOSE k \in DOMAIN metadata : metadata[k].pid = pid])
         ELSE None

\* candidate_dir of scaffold: the stored directory, else base_dir / pid
candidate_dir(existing_record, pid) ==
    IF ~IsNone(existing_record.directory) THEN Val(existing_record.directory) ELSE pid

\* directory_name of scaffold after a fetch
directory_name(existing_record, problem_pid, pid) ==
    LET preferred_directory ==
            IF ~IsNone(existing_record) /\ ~IsNone(Val(existing_record).directory)
            THEN Val(Val(existing_record).directory)
            ELSE problem_pid
    IN  IF preferred_directory # "" THEN preferred_directory ELSE pid

\* build_metadata_record, as far as scaffold and the lookups read it
build_metadata_record(problem, dir) ==
    [pid |-> problem.pid, directory |-> Some(dir), fetched_at |-> "now"]

\* mkdir(exist_ok), write_markdown, write_cpp_template and write_samples on
\* the target directory: T.md and main.cpp are (over)written, the samples
\* 1..n are (over)written, other files stay
write_scaffold(fs, dir, problem) ==
    LET kept == IF dir \in DOMAIN fs THEN fs[dir].samples ELSE {}
        written == [main_cpp |-> "template", t_md |-> "now",
                    samples |-> kept \cup (1 .. problem.samples)]
    IN  [d \in DOMAIN fs \cup {dir} |-> IF d = dir THEN written ELSE fs[d]]

\* metadata[pid] = record, and metadata[record_pid] = record when the
\* record's pid is non-empty and differs
store_record(metadata, pid, record) ==
    LET keys == IF record.pid # "" /\ record.pid # pid THEN {pid, record.pid} ELSE {pid}
    IN  [k \in DOMAIN metadata \cup keys |-> IF k \in keys THEN record ELSE metadata[k]]

\* scaffold(pid, base_dir, force=force), remote being what the site answers
scaffold(pid, force, remote) ==
    LET metadata == load_metadata(metadata_file)
        existing_record == locate_existing_record(metadata, pid)
        found == ~IsNone(existing_record)
    IN  /\ call' = Some([pid |-> pid, force |-> force])
        /\ IF found /\ ~force /\ candidate_dir(Val(existing_record), pid) \in DOMAIN files
           THEN /\ ret' = Some([dir |-> candidate_dir(Val(existing_record), pid),
                                created |-> FALSE])
                /\ fetched' = FALSE
                /\ UNCHANGED <<metadata_file, catalog, files>>
           ELSE /\ fetched' = TRUE
                /\ IF ~remote.ok
                   THEN /\ ret' = None
                        /\ UNCHANGED <<metadata_file, catalog, files>>
                   ELSE LET dir == directory_name(existing_record, remote.pid, pid)
                            record == build_metadata_record(remote, dir)
                        IN  /\ files' = write_scaffold(files, dir, remote)
                            /\ metadata_file' = Some(store_record(metadata, pid, record))
                            /\ catalog' = "generated"
                            /\ ret' = Some([dir |-> dir, created |-> TRUE])
        /\ UNCHANGED judge_vars

\* judge.py is not running
NoJudge ==
    /\ pc = "exited"
    /\ args = [mode |-> "none", timeout |-> None]
    /\ env = [dir_exists |-> FALSE, preferred_is_file |-> FALSE, cpp_files |-> 0,
              in_files |-> {}, info |-> None, time_binary |-> FALSE]
    /\ effective_timeout = None
    /\ tests = <<>>
    /\ warned = FALSE
    /\ enumerated = FALSE
    /\ compiler_runs = 0
    /\ compiler_exit = None
    /\ compile_result = None
    /\ build_dir = FALSE
    /\ idx = 0
    /\ spawned = <<>>
    /\ running = {}
    /\ temp_files = {}
    /\ obs = None
    /\ result = None
    /\ report = <<>>
    /\ overall_success = TRUE
    /\ exit_status = None
    /\ ended_by = ""

\* any store, any of the problem directories already worked in
InitScaffold ==
    /\ NoJudge
    /\ metadata_file \in {None} \cup {Some(m) : m \in Stores}
    /\ catalog \in {"absent", "before"}
    /\ \E D \in SUBSET Pids : files = [d \in D |-> WorkedDir]
    /\ call = None
    /\ fetched = FALSE
    /\ ret = None

Scaffold == \E pid \in Pids, force \in BOOLEAN, remote \in Remotes : scaffold(pid, force, remote)

NextScaffold == Scaffold

SpecScaffold == InitScaffold /\ [][NextScaffold]_vars

\* ================================================================ claims
\* the case whose process main waited for last
Observed == ~IsNone(obs)
Seen == Val(obs)
Got == Val(result)
CompletedCase == Observed /\ Seen.kind = "completed" /\ ~IsNone(result)

\* the tokens of a text, read off its positions: a token starts at a
\* non-whitespace character that is first or follows whitespace, and runs to
\* the last character before the next whitespace
TokenStarts(t) ==
    {i \in 1..Len(t) : t[i] \notin Whitespace /\ (i = 1 \/ t[i - 1] \in Whitespace)}
TokenEnd(t, i) ==
    CHOOSE j \in i..Len(t) :
       /\ \A k \in i..j : t[k] \notin Whitespace
       /\ (j = Len(t) \/ t[j + 1] \in Whitespace)
TokensOf(t) ==
    LET starts == TokenStarts(t)
        nth(k) == CHOOSE i \in starts : Cardinality({j \in starts : j < i}) = k - 1
    IN  [k \in 1..Cardinality(starts) |-> SubSeq(t, nth(k), TokenEnd(t, nth(k)))]
OnlyWhitespace(t) == \A i \in 1..Len(t) : t[i] \in Whitespace

\* C1: a process that completes within the timeout with a non-zero exit code
\* gets status RE whatever its captured stdout is, and the message carries
\* the exit code.
C1_NonZeroExitIsRE ==
    (CompletedCase /\ Seen.returncode # 0)
        => /\ Got.status = "RE"
           /\ Got.message.arg = Some(Seen.returncode)
           /\ Got.stdout = translate_newlines(Seen.stdout_raw)

\* C1 witness: a non-zero exit whose stdout has the tokens of the expected file
C1_Witness ==
    /\ CompletedCase
    /\ Seen.returncode # 0
    /\ Seen.expected_file.is_file
    /\ TokensOf(Seen.stdout_raw) = TokensOf(Seen.expected_file.raw)
    /\ TokensOf(Seen.stdout_raw) # <<>>
    /\ Got.status = "RE"

\* C2 as stated: with the expected file absent and no timeout, the verdict is
\* NO_EXPECTED whatever the exit code.
C2_Original ==
    (CompletedCase /\ ~Seen.expected_file.is_file) => Got.status = "NO_EXPECTED"

\* C2 amended: with the expected file absent and no timeout, the verdict is
\* NO_EXPECTED when the exit code is zero and RE when it is not.
C2_MissingExpected ==
    (CompletedCase /\ ~Seen.expected_file.is_file)
        => Got.status = (IF Seen.returncode = 0 THEN "NO_EXPECTED" ELSE "RE")

\* C2 witness: exit code zero, no expected file, some output
C2_Witness ==
    /\ CompletedCase
    /\ ~Seen.expected_file.is_file
    /\ Seen.returncode = 0
    /\ Seen.stdout_raw # <<>>
    /\ Got.status = "NO_EXPECTED"

\* C3: with exit code zero and the expected file present, the verdict is AC
\* exactly when stdout and the expected text have the same whitespace-split
\* tokens, and WA otherwise; a trailing newline or another line ending does
\* not matter, and an empty expected file matches only whitespace-only output.
C3_TokenEquality ==
    (CompletedCase /\ Seen.returncode = 0 /\ Seen.expected_file.is_file)
        => LET out == Seen.stdout_raw
               exp == Seen.expected_file.raw
           IN  /\ Got.status \in {"AC", "WA"}
               /\ Got.status = "AC" <=> TokensOf(out) = TokensOf(exp)
               /\ out = exp \o <<"\n">> => Got.status = "AC"
               /\ out = exp \o <<"\r", "\n">> => Got.status = "AC"
               /\ exp = <<>> => (Got.status = "AC" <=> OnlyWhitespace(out))

\* C3 witness: an accepted output that differs from the expected text in its
\* whitespace and line ending
C3_Witness ==
    /\ CompletedCase
    /\ Seen.returncode = 0
    /\ Seen.expected_file.is_file
    /\ Got.status = "AC"
    /\ TokensOf(Seen.stdout_raw) # <<>>
    /\ Seen.stdout_raw # Seen.expected_file.raw
    /\ \E i \in 1..Len(Seen.stdout_raw) : Seen.stdout_raw[i] = "\r"

\* C4: when the timeout expires the case gets a TestResult with status TLE
\* that carries the partial stdout and stderr as text, and main goes on
\* without an exception.
C4_TimeoutIsTLE ==
    (Observed /\ Seen.kind = "timeout")
        => /\ ~IsNone(result)
           /\ Got.status = "TLE"
           /\ Got.stdout = (IF Seen.exc.stdout.type = "none" THEN <<>> ELSE Seen.exc.stdout.data)
           /\ Got.stderr = (IF Seen.exc.stderr.type = "none" THEN <<>> ELSE Seen.exc.stderr.data)
           /\ ended_by # "exception"
           /\ Len(report) = idx /\ report[idx].status = "TLE"

\* C4 witness: a timeout whose partial stdout arrived as bytes holding a token
C4_Witness ==
    /\ Observed
    /\ Seen.kind = "timeout"
    /\ Seen.exc.stdout.type = "bytes"
    /\ TokensOf(Seen.exc.stdout.data) # <<>>
    /\ Got.status = "TLE"

\* ---------------------------------------------------------------- runs
ResolutionOk ==
    /\ args.mode \in {"pid", "dir"}
    /\ env.dir_exists
    /\ (env.preferred_is_file \/ env.cpp_files = 1)
ResolutionFault ==
    /\ args.mode \in {"pid", "dir"}
    /\ (~env.dir_exists \/ (~env.preferred_is_file /\ env.cpp_files # 1))
CompileOk == compiler_exit = Some(0)
Discovered == Cardinality(env.in_files)
Verdicts == {"AC", "WA", "RE", "TLE", "NO_EXPECTED"}
AllAccepted ==
    /\ Len(report) = Discovered
    /\ \A i \in 1..Len(report) : report[i].status = "AC"

\* C5: a judge run ends with exit code 0 exactly when the source was
\* resolved, the compile succeeded and every discovered test case got AC
\* (also with no test case at all); any verdict other than AC makes the exit
\* code non-zero.
C5_ExitZeroIffAllAccepted ==
    /\ ~IsNone(exit_status) <=> pc = "exited"
    /\ pc = "exited" =>
          /\ exit_status = Some(0) <=> (ResolutionOk /\ CompileOk /\ AllAccepted)
          /\ (\E i \in 1..Len(report) : report[i].status # "AC") => exit_status # Some(0)
          /\ (ResolutionOk /\ CompileOk /\ Discovered = 0) => exit_status = Some(0)

\* C5 witness: a run of two test cases that ends with exit code 0
C5_Witness ==
    /\ pc = "exited"
    /\ exit_status = Some(0)
    /\ Len(report) >= 2
    /\ AllAccepted

C7_ResolutionFaultStops ==
    ResolutionFault
        => /\ pc \in {"parse_args", "find_source", "exited"}
           /\ pc = "exited" => (exit_status = Some(1) /\ ended_by = "return")
           /\ compiler_runs = 0
           /\ ~build_dir
           /\ spawned = <<>>
           /\ running = {}
           /\ report = <<>>

\* C7 witness: a run that ended on several *.cpp entries and no requested file
C7_Witness ==
    /\ ResolutionFault
    /\ env.dir_exists
    /\ env.cpp_files >= 2
    /\ pc = "exited"
    /\ exit_status = Some(1)

\* C8: an invocation that ends with exit code 2 compiled successfully and
\* had a test case with a verdict other than AC; no other path (argument
\* errors, resolution faults, compile failures) ends with exit code 2.
C8_ExitTwoMeansFailedCase ==
    exit_status = Some(2)
        => /\ CompileOk
           /\ \E i \in 1..Len(report) : report[i].status # "AC"

\* C9: after a successful compile the run yields exactly one TestResult for
\* every discovered test case, in a status of the closed set; no case keeps
\* the later ones from being run and reported.
C9_OneResultPerCase ==
    (pc = "exited" /\ CompileOk)
        => /\ Len(report) = Discovered
           /\ \A i \in 1..Len(report) :
                 /\ report[i].name = list_tests(env)[i]
                 /\ report[i].status \in Verdicts

\* the processes are started in ascending name order, the lines reported in
\* that order, and the line of a case precedes the start of the next case
InOrder ==
    /\ Len(spawned) <= Discovered
    /\ spawned = SubSeq(list_tests(env), 1, Len(spawned))
    /\ Len(report) <= Len(spawned)
    /\ Len(spawned) <= Len(report) + 1
    /\ \A i \in 1..Len(report) : report[i].name = spawned[i]

\* no processes of two test cases are alive together
OneCaseAtATime == \A p \in running, q \in running : p.case = q.case

\* C10: test cases run one at a time in ascending order of input name and
\* are reported in that order, the line of case i before the process of case
\* i+1 starts, and never are the processes of two test cases running together.
C10_SequentialInOrder == InOrder /\ OneCaseAtATime

\* C11: when a run that made the build directory ends (failed compile,
\* all tests done, or an exception out of compile_source or run_single_test)
\* the build directory and the binary in it are gone.
C11_BuildDirRemoved ==
    /\ build_dir => (compiler_runs >= 1 /\ pc \in {"loop", "wait"})
    /\ (pc = "exited" /\ compiler_runs >= 1) => ~build_dir

\* C11 witness: a run ended by an exception of run_single_test after a
\* process was started from the build directory
C11_Witness ==
    /\ pc = "exited"
    /\ ended_by = "exception"
    /\ CompileOk
    /\ spawned # <<>>
    /\ ~build_dir

\* C12: every side-channel file made for a test case is deleted by the time
\* run_single_test returns or raises, on every exit path.
C12_TempFilesRemoved ==
    pc # "wait" => temp_files = {}

\* the side-channel file of the observed case, when run_with_time made one
HasLog == CompletedCase /\ ~IsNone(Seen.time_log_path)
Log == Val(Seen.time_log_path)
\* missing, empty, fewer than two fields, or a field that is no number
BadLog(f) ==
    \/ ~f.is_file
    \/ Len(f.fields) < 2
    \/ IsNone(f.fields[1])
    \/ IsNone(f.fields[2])
Wall == Seen.harness.end_time - Seen.harness.start_time
\* the verdict as the exit code, the expected file and the tokens decide it
VerdictOfCase ==
    IF Seen.returncode # 0 THEN "RE"
    ELSE IF ~Seen.expected_file.is_file THEN "NO_EXPECTED"
    ELSE IF TokensOf(Seen.stdout_raw) = TokensOf(Seen.expected_file.raw) THEN "AC"
    ELSE "WA"

\* C13: with a side-channel file that is missing, empty, short of two fields
\* or not numeric, run_single_test still returns a TestResult: memory unknown,
\* time the wall-clock delta, and the status the case has anyway.
C13_BadLogDegrades ==
    (HasLog /\ BadLog(Log))
        => /\ Got.memory_kb = None
           /\ Got.time_seconds = Some(Wall)
           /\ Got.status = VerdictOfCase
           /\ pc # "wait"
           /\ Seen.kind = "completed"

\* C13 witness: an accepted case whose file holds a single numeric field
C13_Witness ==
    /\ HasLog
    /\ Log.is_file
    /\ Len(Log.fields) = 1
    /\ ~IsNone(Log.fields[1])
    /\ Got.status = "AC"
    /\ Got.memory_kb = None

\* the time part of C14 for completed runs: a reported time that is missing,
\* zero or negative gives way to the wall-clock delta
FallsBackToWall ==
    (CompletedCase /\ (IsNone(Seen.time_log_path) \/ BadLog(Log) \/ Val(Log.fields[1]) <= 0))
        => Got.time_seconds = Some(Wall)

\* C14: every TestResult (TLE included) has a time_seconds that is >= 0 when
\* present, and a completed run whose reported time is missing, zero or
\* negative has the wall-clock delta.
C14_TimeNonNegative ==
    /\ ~IsNone(result) => (IsNone(Got.time_seconds) \/ Val(Got.time_seconds) >= 0)
    /\ FallsBackToWall

\* C20: when the side-channel file parses to (t, m), memory_kb is m whatever
\* its sign, never a harness or rusage value, and time_seconds is the
\* wall-clock delta exactly when t <= 0, else t.
C20_AsymmetricSubstitution ==
    (HasLog /\ ~BadLog(Log))
        => LET t == Val(Log.fields[1])
               m == Val(Log.fields[2])
           IN  /\ Got.memory_kb = Some(m)
               /\ Got.time_seconds = (IF t <= 0 THEN Some(Wall) ELSE Some(t))

\* C20 witness: a file with a negative memory and a zero time, the rusage
\* value differing from the memory
C20_Witness ==
    /\ HasLog
    /\ ~BadLog(Log)
    /\ Val(Log.fields[1]) = 0
    /\ Val(Log.fields[2]) < 0
    /\ Seen.harness.after_maxrss # Val(Log.fields[2])
    /\ Got.memory_kb = Log.fields[2]
    /\ Got.time_seconds = Some(Wall)

\* C15: every process run is bounded by a wall-clock timeout, so every run
\* of main over its finite test list ends, also when the program under test
\* never exits and neither --timeout nor a metadata limit is there.
C15_Terminates == <>(pc = "exited")

\* the runs that have a timeout do end
TerminatesWithTimeout ==
    ~IsNone(effective_timeout_of(args.timeout, metadata_timeout_of(env.info)))
        => <>(pc = "exited")

\* C16: when the timeout of a case expires its processes (the timing wrapper
\* and the solution binary) are terminated before the TLE result is returned:
\* none is alive when the next case starts or when the run ends.
C16_TimeoutTerminates ==
    \A p \in running : pc = "wait" /\ p.case = CurrentCase

\* the timeout main is to use: --timeout when given, else time_limit_ms / 1000
\* of the metadata record when that is a number, else none
TimeoutOfRun ==
    IF ~IsNone(args.timeout) THEN args.timeout
    ELSE IF IsNone(env.info) THEN None
    ELSE IF IsNone(Val(env.info).time_limit_ms) THEN None
    ELSE Some(Val(Val(env.info).time_limit_ms) \div 1000)

\* C17: every run_single_test call of a run gets the explicit timeout when
\* one was supplied (0 included), else time_limit_ms/1000 of the metadata
\* record when numeric, else no timeout; the same value for every case.
C17_TimeoutOfEveryCase ==
    /\ pc \in {"list_tests", "compile", "loop", "wait"} => effective_timeout = TimeoutOfRun
    /\ Observed => Seen.timeout = TimeoutOfRun
    /\ (Observed /\ Seen.kind = "timeout")
          => (~IsNone(TimeoutOfRun) /\ Got.time_seconds = TimeoutOfRun)

\* C17 witness: --timeout 0 beside a metadata limit, on the second case
C17_Witness ==
    /\ args.timeout = Some(0)
    /\ ~IsNone(env.info)
    /\ ~IsNone(Val(env.info).time_limit_ms)
    /\ Len(report) >= 2
    /\ Observed
    /\ Seen.kind = "timeout"
    /\ Seen.timeout = Some(0)

CallPid == Val(call').pid
CallForce == Val(call').force
StoreBefore == IF metadata_file = None THEN <<>> ELSE metadata_file[1]
\* the entries of the store for the pid: under the key, else by the pid field
EntriesBefore ==
    IF CallPid \in DOMAIN StoreBefore THEN {CallPid}
    ELSE {k \in DOMAIN StoreBefore : StoreBefore[k].pid = CallPid}
RecordBefore ==
    IF EntriesBefore = {} THEN None ELSE Some(StoreBefore[CHOOSE k \in EntriesBefore : TRUE])
\* the directory of the problem: the record's, else base_dir / pid
DirectoryOfCall ==
    IF IsNone(RecordBefore) \/ Val(RecordBefore).directory = None
    THEN CallPid
    ELSE Val(RecordBefore).directory[1]
DirectoryMissing == DirectoryOfCall \notin DOMAIN files
FilesOverwritten == \E d \in DOMAIN files : files'[d] # files[d]

\* a call without force on a pid with a record whose directory exists does
\* not fetch, changes nothing and returns that directory with created=False
ExistingScaffoldKept ==
    (~CallForce /\ ~IsNone(RecordBefore) /\ ~DirectoryMissing)
        => /\ fetched' = FALSE
           /\ metadata_file' = metadata_file
           /\ catalog' = catalog
           /\ files' = files
           /\ ret' = Some([dir |-> DirectoryOfCall, created |-> FALSE])

\* C21 as stated: scaffold without force, on a pid that has a record (by key
\* or by its pid field) whose directory exists, does no fetch, leaves store,
\* catalog and files unchanged and returns created=False; and files are
\* overwritten only when force is set or the directory is missing.
C21_Original ==
    [][ /\ ExistingScaffoldKept
        /\ FilesOverwritten => (CallForce \/ DirectoryMissing) ]_vars

\* C21 amended: the same frame for a pid with a record whose directory
\* exists; files are overwritten only when force is set, or no record of the
\* pid is found, or the directory is missing.
C21_ExistingScaffoldKept ==
    [][ /\ ExistingScaffoldKept
        /\ FilesOverwritten => (CallForce \/ IsNone(RecordBefore) \/ DirectoryMissing) ]_vars

\* the frame of C21 alone
C21_FrameOnly == [][ExistingScaffoldKept]_vars

\* C21 witness: a call without force was answered from a record found by its
\* pid field, the user's main.cpp still in the directory
C21_Witness ==
    /\ ~IsNone(call)
    /\ ~Val(call).force
    /\ ~fetched
    /\ ~IsNone(ret)
    /\ ~Val(ret).created
    /\ Val(call).pid \notin DOMAIN load_metadata(metadata_file)
    /\ Val(ret).dir \in DOMAIN files
    /\ files[Val(ret).dir].main_cpp = "solution"

====
